---------------------------- MODULE Spec2Model ----------------------------
(***************************************************************************)
(* Matchmaking and game-session server (src/src/index.ts).                 *)
(*                                                                         *)
(* The server keeps three process-wide stores: games (Map), players (Map)  *)
(* and mmQueue (array).  Player records are JavaScript objects: a game     *)
(* holds REFERENCES to the two Player objects it was created with, and the *)
(* players map holds a reference per connection.  joinQueue replaces the   *)
(* map's reference by a fresh object, so the object a game holds and the   *)
(* object the map holds for the same connection can differ.  The model     *)
(* therefore keeps an explicit heap of Player objects.                     *)
(*                                                                         *)
(* Every socket.io event handler runs to completion; one action of the     *)
(* model is one whole handler, its emissions included (variable out).      *)
(* accepted and lastMover are history variables: no handler reads them.    *)
(***************************************************************************)
EXTENDS Integers, Sequences, FiniteSets, TLC

(***************************************************************************)
(* Bounds of the model.                                                    *)
(***************************************************************************)
MaxConns == 2      \* connections the transport ever opens
MaxPlayers == 4    \* Player objects ever allocated (joinQueue events)
MaxMoves == 1      \* accepted moves explored by Spec (SpecPlay has no cap)
MaxPos == 1        \* highest cell Spec sends in makeMove (SpecPlay sends every cell)

(***************************************************************************)
(* Values.                                                                 *)
(***************************************************************************)
BoardSize == 9
Null == "null"
Undefined == "undefined"
NoConn == 0                 \* null in currentTurn / winner
Conns == 1..MaxConns
Names == {"Player1"}
Cells == 0..(BoardSize - 1)
Positions == -1..BoardSize  \* inputs of makeMove: 0..8 and one value outside on each side
LobbyPositions == (-1..MaxPos) \cup {BoardSize}

VARIABLES
    sockets,      \* connections currently open (transport)
    nextConn,     \* next connection id the transport assigns
    games,        \* Map gameId -> GameState; players are heap references
    players,      \* Map socket.id -> heap reference of its Player object
    heap,         \* Player objects: reference -> record
    mmQueue,      \* array of socket ids
    rooms,        \* socket.io rooms: set of <<socket id, gameId>>
    nextGameId,   \* next unused game id
    out,          \* what the last handler emitted, in order
    accepted,     \* history: <<socket id, gameId>> of joinGame events that passed every check
    lastMover,    \* history: gameId -> connection of the last accepted move (NoConn: none yet)
    ended,        \* history: ids of the games that have reached status finished
    probe,        \* a board handed to checkWinner on its own
    verdict       \* what checkWinner returned for probe: <<>> before the call, <<b>> after

vars == <<sockets, nextConn, games, players, heap, mmQueue, rooms, nextGameId,
          out, accepted, lastMover, ended, probe, verdict>>

(***************************************************************************)
(* The stores as one record, so that a handler is a function of the stores *)
(* and its inputs, and handlers compose the way the code calls them.       *)
(***************************************************************************)
Store ==
    [sockets |-> sockets, games |-> games, players |-> players, heap |-> heap,
     mmQueue |-> mmQueue, rooms |-> rooms, nextGameId |-> nextGameId, out |-> <<>>]

EmptyBoard == [i \in Cells |-> Null]

NoSnap ==
    [id |-> 0, board |-> EmptyBoard, players |-> <<>>, currentTurn |-> NoConn,
     status |-> "none", winner |-> NoConn]

\* The GameState as socket.io serialises it: the Player objects by value.
Snapshot(s, gameId) ==
    LET game == s.games[gameId] IN
    [id |-> game.id, board |-> game.board,
     players |-> <<s.heap[game.players[1]], s.heap[game.players[2]]>>,
     currentTurn |-> game.currentTurn, status |-> game.status, winner |-> game.winner]

Emission(type, to, text, num, snap) ==
    [type |-> type, to |-> to, text |-> text, num |-> num, game |-> snap]

\* io.emit(...)
emitAll(s, type, num) ==
    [s EXCEPT !.out = Append(@, Emission(type, s.sockets, "", num, NoSnap))]

\* io.to(socketId).emit('gameFound', gameId): every socket is in the room of its own id
emitGameFound(s, socketId, gameId) ==
    [s EXCEPT !.out = Append(@, Emission("gameFound", {socketId} \cap s.sockets, "", gameId, NoSnap))]

\* io.to(gameId).emit('gameUpdate', game)
RoomOf(s, gameId) == {c \in s.sockets : <<c, gameId>> \in s.rooms}

emitGameUpdate(s, gameId) ==
    [s EXCEPT !.out = Append(@, Emission("gameUpdate", RoomOf(s, gameId), "", 0, Snapshot(s, gameId)))]

\* socket.emit('error', text)
emitError(s, c, text) ==
    [s EXCEPT !.out = Append(@, Emission("error", {c}, text, 0, NoSnap))]

emitQueueSize(s) == emitAll(s, "queueSize", Len(s.mmQueue))

(***************************************************************************)
(* Player objects that neither the players map nor any game references can *)
(* never be read again (the runtime reclaims them): the slot is kept, the  *)
(* fields are dropped.  Objects lose their last reference only in          *)
(* joinQueue (the map entry is overwritten) and in disconnect (the map     *)
(* entry and waiting games are deleted).                                   *)
(***************************************************************************)
Dead ==
    [id |-> NoConn, name |-> "", symbol |-> Undefined, inGame |-> FALSE, inQueue |-> FALSE]

Live(s) ==
    {s.players[c] : c \in DOMAIN s.players}
        \cup UNION {{s.games[g].players[1], s.games[g].players[2]} : g \in DOMAIN s.games}

Collect(s) ==
    LET live == Live(s)
    IN  [s EXCEPT !.heap = [r \in 1..Len(@) |-> IF r \in live THEN @[r] ELSE Dead]]

(***************************************************************************)
(* checkWinner                                                             *)
(***************************************************************************)
winningCombos ==
    << <<0, 1, 2>>, <<3, 4, 5>>, <<6, 7, 8>>,
       <<0, 3, 6>>, <<1, 4, 7>>, <<2, 5, 8>>,
       <<0, 4, 8>>, <<2, 4, 6>> >>

\* checkWinner without the non-empty test on the first cell of a combo
checkWinner_AllowsNull(board) ==
    \E k \in 1..Len(winningCombos) :
        LET a == winningCombos[k][1]
            b == winningCombos[k][2]
            c == winningCombos[k][3]
        IN  board[a] = board[b] /\ board[a] = board[c]

checkWinner(board) ==
    \E k \in 1..Len(winningCombos) :
        LET a == winningCombos[k][1]
            b == winningCombos[k][2]
            c == winningCombos[k][3]
        IN  board[a] # Null /\ board[a] = board[b] /\ board[a] = board[c]

(***************************************************************************)
(* tryToCreateGame.  The game id is a random token                         *)
(* (Math.random().toString(36).substring(7)); the model hands out ids that *)
(* were never used before, 1, 2, ..., which is what a token that does not  *)
(* collide amounts to.  A Map iterates in insertion order, here the order  *)
(* of the ids.                                                             *)
(***************************************************************************)
tryToCreateGame(s) ==
    IF Len(s.mmQueue) < 2 THEN s
    ELSE
      LET player1Id == s.mmQueue[1]
          player2Id == s.mmQueue[2]
          s1 == [s EXCEPT !.mmQueue = SubSeq(@, 3, Len(@))]   \* splice(0, 2)
      IN  IF player1Id \notin DOMAIN s.players \/ player2Id \notin DOMAIN s.players
          THEN s1
          ELSE
            LET player1 == s.players[player1Id]
                player2 == s.players[player2Id]
                gameId == s.nextGameId
                game == [id |-> gameId, board |-> EmptyBoard,
                         players |-> <<player1, player2>>,
                         currentTurn |-> NoConn, status |-> "waiting",
                         winner |-> NoConn]
                heap1 == [s.heap EXCEPT ![player1].symbol = "X"]
                heap2 == [heap1 EXCEPT ![player2].symbol = "O"]
                s2 == [s1 EXCEPT !.heap = heap2,
                                 !.games = (gameId :> game) @@ @,
                                 !.nextGameId = @ + 1]
                s3 == emitGameFound(s2, heap2[player1].id, gameId)
                s4 == emitGameFound(s3, heap2[player2].id, gameId)
            IN  emitQueueSize(s4)

(***************************************************************************)
(* socket.on('joinQueue')                                                  *)
(***************************************************************************)
NewRef(s) == Len(s.heap) + 1

joinQueue(s, c, playerName) ==
    LET player == [id |-> c, name |-> playerName, symbol |-> Undefined,
                   inGame |-> FALSE, inQueue |-> TRUE]
        ref == NewRef(s)
        s1 == [s EXCEPT !.heap = Append(@, player),
                        !.players = (c :> ref) @@ @,
                        !.mmQueue = Append(@, c)]
    IN  Collect(tryToCreateGame(emitQueueSize(s1)))

(***************************************************************************)
(* socket.on('leaveQueue')                                                 *)
(***************************************************************************)
IndexOf(q, c) ==
    IF \E i \in 1..Len(q) : q[i] = c
    THEN CHOOSE i \in 1..Len(q) : q[i] = c /\ \A j \in 1..(i - 1) : q[j] # c
    ELSE 0

RemoveAt(q, i) == SubSeq(q, 1, i - 1) \o SubSeq(q, i + 1, Len(q))

leaveQueue(s, c) ==
    IF c \notin DOMAIN s.players THEN s
    ELSE
      LET player == s.players[c]
          s1 == [s EXCEPT !.heap[player].inQueue = FALSE]
          queueIndex == IndexOf(s.mmQueue, c)
      IN  IF queueIndex # 0
          THEN emitQueueSize([s1 EXCEPT !.mmQueue = RemoveAt(@, queueIndex)])
          ELSE s1

(***************************************************************************)
(* socket.on('joinGame')                                                   *)
(***************************************************************************)
\* game.players.find((p) => p.id !== socket.id): the reference, or 0 when there is none
FindOther(s, game, c) ==
    IF s.heap[game.players[1]].id # c THEN game.players[1]
    ELSE IF s.heap[game.players[2]].id # c THEN game.players[2]
    ELSE 0

\* game.players.find((p) => p.id === socket.id)
FindSelf(s, game, c) ==
    IF s.heap[game.players[1]].id = c THEN game.players[1]
    ELSE IF s.heap[game.players[2]].id = c THEN game.players[2]
    ELSE 0

\* the event passes every check of the handler (reaches player.inGame = true)
joinGameAccepts(s, c, gameId) ==
    /\ gameId \in DOMAIN s.games
    /\ \/ c = s.heap[s.games[gameId].players[1]].id
       \/ c = s.heap[s.games[gameId].players[2]].id
    /\ c \in DOMAIN s.players
    /\ FindOther(s, s.games[gameId], c) # 0

\* joinGame starting the game on the second-paired player's turn
joinGame_StartSecond(s, c, gameId) ==
    IF gameId \notin DOMAIN s.games THEN emitError(s, c, "Game not found")
    ELSE
      LET game == s.games[gameId] IN
      IF c # s.heap[game.players[1]].id /\ c # s.heap[game.players[2]].id
      THEN emitError(s, c, "You are not allowed to join this game")
      ELSE IF c \notin DOMAIN s.players THEN s
      ELSE
        LET player == s.players[c]
            otherPlayer == FindOther(s, game, c)
        IN  IF otherPlayer = 0 THEN s
            ELSE
              LET heap1 == [s.heap EXCEPT ![player].inGame = TRUE,
                                          ![player].inQueue = FALSE]
                  start == heap1[player].inGame /\ heap1[otherPlayer].inGame
                  game1 == IF start
                           THEN [game EXCEPT !.status = "playing",
                                             !.currentTurn = heap1[game.players[2]].id]
                           ELSE game
                  s1 == [s EXCEPT !.heap = heap1,
                                  !.games[gameId] = game1,
                                  !.rooms = @ \cup {<<c, gameId>>}]
              IN  emitGameUpdate(s1, gameId)

joinGame(s, c, gameId) ==
    IF gameId \notin DOMAIN s.games THEN emitError(s, c, "Game not found")
    ELSE
      LET game == s.games[gameId] IN
      IF c # s.heap[game.players[1]].id /\ c # s.heap[game.players[2]].id
      THEN emitError(s, c, "You are not allowed to join this game")
      ELSE IF c \notin DOMAIN s.players THEN s
      ELSE
        LET player == s.players[c]
            otherPlayer == FindOther(s, game, c)
        IN  IF otherPlayer = 0 THEN s
            ELSE
              LET heap1 == [s.heap EXCEPT ![player].inGame = TRUE,
                                          ![player].inQueue = FALSE]
                  start == heap1[player].inGame /\ heap1[otherPlayer].inGame
                  game1 == IF start
                           THEN [game EXCEPT !.status = "playing",
                                             !.currentTurn = heap1[game.players[1]].id]
                           ELSE game
                  s1 == [s EXCEPT !.heap = heap1,
                                  !.games[gameId] = game1,
                                  !.rooms = @ \cup {<<c, gameId>>}]
              IN  emitGameUpdate(s1, gameId)

(***************************************************************************)
(* socket.on('makeMove')                                                   *)
(***************************************************************************)
\* the event passes every check of the handler (reaches the board write)
makeMoveAccepts(s, c, gameId, position) ==
    /\ gameId \in DOMAIN s.games
    /\ s.games[gameId].status = "playing"
    /\ s.games[gameId].currentTurn = c
    /\ ~(position < 0 \/ position > 8)
    /\ s.games[gameId].board[position] = Null
    /\ FindSelf(s, s.games[gameId], c) # 0
    /\ FindOther(s, s.games[gameId], c) # 0
    /\ s.heap[FindSelf(s, s.games[gameId], c)].symbol # Undefined

\* applyMove with the draw test before the win test
applyMove_DrawFirst(s, c, gameId, position, player, otherPlayer) ==
    LET game == s.games[gameId]
        board1 == [game.board EXCEPT ![position] = s.heap[player].symbol]
        cleared == [s.heap EXCEPT ![player].symbol = Undefined,
                                  ![player].inGame = FALSE,
                                  ![otherPlayer].symbol = Undefined,
                                  ![otherPlayer].inGame = FALSE]
        s1 == IF \A i \in Cells : board1[i] # Null
              THEN [s EXCEPT !.games[gameId] =
                               [game EXCEPT !.board = board1, !.status = "finished",
                                            !.winner = NoConn],
                             !.heap = cleared]
              ELSE IF checkWinner(board1)
              THEN [s EXCEPT !.games[gameId] =
                               [game EXCEPT !.board = board1, !.status = "finished",
                                            !.winner = c],
                             !.heap = cleared]
              ELSE [s EXCEPT !.games[gameId] =
                               [game EXCEPT !.board = board1,
                                            !.currentTurn = s.heap[otherPlayer].id]]
    IN  emitGameUpdate(s1, gameId)

\* applyMove whose draw branch forgets the opponent's record
applyMove_DrawKeepsOpponent(s, c, gameId, position, player, otherPlayer) ==
    LET game == s.games[gameId]
        board1 == [game.board EXCEPT ![position] = s.heap[player].symbol]
        cleared == [s.heap EXCEPT ![player].symbol = Undefined,
                                  ![player].inGame = FALSE,
                                  ![otherPlayer].symbol = Undefined,
                                  ![otherPlayer].inGame = FALSE]
        half == [s.heap EXCEPT ![player].symbol = Undefined,
                               ![player].inGame = FALSE]
        s1 == IF checkWinner(board1)
              THEN [s EXCEPT !.games[gameId] =
                               [game EXCEPT !.board = board1, !.status = "finished",
                                            !.winner = c],
                             !.heap = cleared]
              ELSE IF \A i \in Cells : board1[i] # Null
              THEN [s EXCEPT !.games[gameId] =
                               [game EXCEPT !.board = board1, !.status = "finished",
                                            !.winner = NoConn],
                             !.heap = half]
              ELSE [s EXCEPT !.games[gameId] =
                               [game EXCEPT !.board = board1,
                                            !.currentTurn = s.heap[otherPlayer].id]]
    IN  emitGameUpdate(s1, gameId)

\* lines 180-207: the write, the outcome and the broadcast
applyMove(s, c, gameId, position, player, otherPlayer) ==
    LET game == s.games[gameId]
        board1 == [game.board EXCEPT ![position] = s.heap[player].symbol]
        cleared == [s.heap EXCEPT ![player].symbol = Undefined,
                                  ![player].inGame = FALSE,
                                  ![otherPlayer].symbol = Undefined,
                                  ![otherPlayer].inGame = FALSE]
        s1 == IF checkWinner(board1)
              THEN [s EXCEPT !.games[gameId] =
                               [game EXCEPT !.board = board1, !.status = "finished",
                                            !.winner = c],
                             !.heap = cleared]
              ELSE IF \A i \in Cells : board1[i] # Null
              THEN [s EXCEPT !.games[gameId] =
                               [game EXCEPT !.board = board1, !.status = "finished",
                                            !.winner = NoConn],
                             !.heap = cleared]
              ELSE [s EXCEPT !.games[gameId] =
                               [game EXCEPT !.board = board1,
                                            !.currentTurn = s.heap[otherPlayer].id]]
    IN  emitGameUpdate(s1, gameId)

\* validateMove without the occupied-cell test of line 166
validateMove_NoOccupiedCheck(s, c, gameId, position) ==
    IF gameId \notin DOMAIN s.games THEN "Game not found"
    ELSE IF s.games[gameId].status # "playing" THEN "Game is not in progress"
    ELSE IF s.games[gameId].currentTurn # c THEN "Not your turn"
    ELSE IF position < 0 \/ position > 8
    THEN "Invalid move"
    ELSE ""

\* validateMove without the turn check of lines 161-164
validateMove_NoTurnCheck(s, c, gameId, position) ==
    IF gameId \notin DOMAIN s.games THEN "Game not found"
    ELSE IF s.games[gameId].status # "playing" THEN "Game is not in progress"
    ELSE IF position < 0 \/ position > 8 \/ s.games[gameId].board[position] # Null
    THEN "Invalid move"
    ELSE ""

\* lines 149-169: the first failing check's error text, "" when all four pass
validateMove(s, c, gameId, position) ==
    IF gameId \notin DOMAIN s.games THEN "Game not found"
    ELSE IF s.games[gameId].status # "playing" THEN "Game is not in progress"
    ELSE IF s.games[gameId].currentTurn # c THEN "Not your turn"
    ELSE IF position < 0 \/ position > 8 \/ s.games[gameId].board[position] # Null
    THEN "Invalid move"
    ELSE ""

makeMove(s, c, gameId, position) ==
    LET error == validateMove(s, c, gameId, position) IN
    IF error # "" THEN emitError(s, c, error)
    ELSE
      LET game == s.games[gameId]
          player == FindSelf(s, game, c)
          otherPlayer == FindOther(s, game, c)
      IN  IF player = 0 \/ otherPlayer = 0 THEN s
          ELSE IF s.heap[player].symbol = Undefined THEN s
          ELSE applyMove(s, c, gameId, position, player, otherPlayer)

(***************************************************************************)
(* socket.on('disconnect')                                                 *)
(***************************************************************************)
HasPlayer(s, game, c) ==
    s.heap[game.players[1]].id = c \/ s.heap[game.players[2]].id = c

\* disconnectGame finishing a waiting game instead of deleting it
disconnectGame_FinishesWaiting(s, c, gameId) ==
    IF gameId \notin DOMAIN s.games THEN s
    ELSE
      LET game == s.games[gameId] IN
      IF ~HasPlayer(s, game, c) THEN s
      ELSE IF game.status \in {"waiting", "playing"}
      THEN LET other == FindOther(s, game, c)
               s1 == [s EXCEPT !.games[gameId] =
                        [game EXCEPT !.status = "finished",
                                     !.winner = IF other = 0 THEN NoConn
                                                ELSE s.heap[other].id]]
           IN  emitGameUpdate(s1, gameId)
      ELSE s

\* one step of games.forEach, for the game of id gameId (absent ids are skipped)
disconnectGame(s, c, gameId) ==
    IF gameId \notin DOMAIN s.games THEN s
    ELSE
      LET game == s.games[gameId] IN
      IF ~HasPlayer(s, game, c) THEN s
      ELSE IF game.status = "waiting"
      THEN [s EXCEPT !.games = [g \in (DOMAIN @) \ {gameId} |-> @[g]]]
      ELSE IF game.status = "playing"
      THEN LET other == FindOther(s, game, c)
               s1 == [s EXCEPT !.games[gameId] =
                        [game EXCEPT !.status = "finished",
                                     !.winner = IF other = 0 THEN NoConn
                                                ELSE s.heap[other].id]]
           IN  emitGameUpdate(s1, gameId)
      ELSE s

\* games.forEach in insertion order: game ids are handed out in increasing order
RECURSIVE disconnectScan(_, _, _)
disconnectScan(s, c, gameId) ==
    IF gameId >= s.nextGameId THEN s
    ELSE disconnectScan(disconnectGame(s, c, gameId), c, gameId + 1)

\* disconnect without the queue removal of lines 215-219
disconnect_KeepsQueue(s, c) ==
    LET s0 == [s EXCEPT !.sockets = @ \ {c},
                        !.rooms = {r \in @ : r[1] # c}]
        s2 == disconnectScan(s0, c, 1)
    IN  Collect([s2 EXCEPT !.players = [k \in (DOMAIN @) \ {c} |-> @[k]]])

disconnect(s, c) ==
    LET \* the transport has closed the socket and emptied its rooms before the handler runs
        s0 == [s EXCEPT !.sockets = @ \ {c},
                        !.rooms = {r \in @ : r[1] # c}]
        queueIndex == IndexOf(s0.mmQueue, c)
        s1 == IF queueIndex # 0
              THEN emitQueueSize([s0 EXCEPT !.mmQueue = RemoveAt(@, queueIndex)])
              ELSE s0
        s2 == disconnectScan(s1, c, 1)
    IN  Collect([s2 EXCEPT !.players = [k \in (DOMAIN @) \ {c} |-> @[k]]])

(***************************************************************************)
(* The state machine.                                                      *)
(***************************************************************************)
EmptyMap == [k \in {} |-> 0]

Init ==
    /\ sockets = {}
    /\ nextConn = 1
    /\ games = EmptyMap
    /\ players = EmptyMap
    /\ heap = <<>>
    /\ mmQueue = <<>>
    /\ rooms = {}
    /\ nextGameId = 1
    /\ out = <<>>
    /\ accepted = {}
    /\ lastMover = EmptyMap
    /\ ended = {}
    /\ probe = EmptyBoard
    /\ verdict = <<>>

\* the history of finished games follows the store; checkWinner's probe is not part of it
Track ==
    /\ ended' = ended \cup {g \in DOMAIN games' : games'[g].status = "finished"}
    /\ UNCHANGED <<probe, verdict>>

Commit(s) ==
    /\ sockets' = s.sockets
    /\ games' = s.games
    /\ players' = s.players
    /\ heap' = s.heap
    /\ mmQueue' = s.mmQueue
    /\ rooms' = s.rooms
    /\ nextGameId' = s.nextGameId
    /\ out' = s.out

\* inputs: the game ids handed out so far and one that names no game yet
GameIds == 1..nextGameId

TotalMarks ==
    LET RECURSIVE Sum(_)
        Sum(S) == IF S = {} THEN 0
                  ELSE LET g == CHOOSE x \in S : TRUE
                       IN  Cardinality({i \in Cells : games[g].board[i] # Null}) + Sum(S \ {g})
    IN  Sum(DOMAIN games)

Connect ==
    /\ nextConn <= MaxConns
    /\ sockets' = sockets \cup {nextConn}
    /\ nextConn' = nextConn + 1
    /\ out' = <<>>
    /\ UNCHANGED <<games, players, heap, mmQueue, rooms, nextGameId, accepted, lastMover,
                   ended, probe, verdict>>

JoinQueue(c, playerName) ==
    /\ c \in sockets
    /\ Len(heap) < MaxPlayers
    /\ Commit(joinQueue(Store, c, playerName))
    /\ Track
    /\ lastMover' = [g \in DOMAIN games' |-> IF g \in DOMAIN lastMover THEN lastMover[g] ELSE NoConn]
    /\ UNCHANGED <<nextConn, accepted>>

LeaveQueue(c) ==
    /\ c \in sockets
    /\ Commit(leaveQueue(Store, c))
    /\ Track
    /\ UNCHANGED <<nextConn, accepted, lastMover>>

JoinGame(c, gameId) ==
    /\ c \in sockets
    /\ Commit(joinGame(Store, c, gameId))
    /\ Track
    /\ accepted' = IF joinGameAccepts(Store, c, gameId)
                   THEN accepted \cup {<<c, gameId>>} ELSE accepted
    /\ UNCHANGED <<nextConn, lastMover>>

MakeMove(c, gameId, position) ==
    /\ c \in sockets
    /\ Commit(makeMove(Store, c, gameId, position))
    /\ Track
    /\ lastMover' = IF makeMoveAccepts(Store, c, gameId, position)
                    THEN [lastMover EXCEPT ![gameId] = c] ELSE lastMover
    /\ UNCHANGED <<nextConn, accepted>>

Disconnect(c) ==
    /\ c \in sockets
    /\ Commit(disconnect(Store, c))
    /\ Track
    /\ lastMover' = [g \in DOMAIN games' |-> lastMover[g]]
    /\ UNCHANGED <<nextConn, accepted>>

MakeMoveCapped(c, gameId, position) ==
    /\ makeMoveAccepts(Store, c, gameId, position) => TotalMarks < MaxMoves
    /\ MakeMove(c, gameId, position)

Next ==
    \/ Connect
    \/ \E c \in Conns, n \in Names : JoinQueue(c, n)
    \/ \E c \in Conns : LeaveQueue(c)
    \/ \E c \in Conns, g \in GameIds : JoinGame(c, g)
    \/ \E c \in Conns, g \in GameIds, p \in LobbyPositions : MakeMoveCapped(c, g, p)
    \/ \E c \in Conns : Disconnect(c)

Spec == Init /\ [][Next]_vars

(***************************************************************************)
(* Play: the server from the state the test file sets up before every      *)
(* gameplay test (two clients connect, both joinQueue, both joinGame the   *)
(* game they were paired into), computed with the handlers themselves.     *)
(* From there every cell is a makeMove input and no cap limits the moves;  *)
(* the clients name the game they were paired into, as the tests do.       *)
(***************************************************************************)
Fresh(s) == [s EXCEPT !.out = <<>>]

EmptyStore ==
    [sockets |-> {1, 2}, games |-> EmptyMap, players |-> EmptyMap, heap |-> <<>>,
     mmQueue |-> <<>>, rooms |-> {}, nextGameId |-> 1, out |-> <<>>]

PlayStore ==
    LET s1 == joinQueue(EmptyStore, 1, "Player1")
        s2 == joinQueue(Fresh(s1), 2, "Player1")
        s3 == joinGame(Fresh(s2), 1, 1)
    IN  joinGame(Fresh(s3), 2, 1)

InitPlay ==
    /\ sockets = PlayStore.sockets
    /\ nextConn = 3
    /\ games = PlayStore.games
    /\ players = PlayStore.players
    /\ heap = PlayStore.heap
    /\ mmQueue = PlayStore.mmQueue
    /\ rooms = PlayStore.rooms
    /\ nextGameId = PlayStore.nextGameId
    /\ out = PlayStore.out
    /\ accepted = {<<1, 1>>, <<2, 1>>}
    /\ lastMover = (1 :> NoConn)
    /\ ended = {}
    /\ probe = EmptyBoard
    /\ verdict = <<>>

NextPlay ==
    \/ \E c \in {1, 2}, g \in DOMAIN games, p \in Positions : MakeMove(c, g, p)
    \/ \E c \in {1, 2}, g \in DOMAIN games : JoinGame(c, g)
    \/ \E c \in {1, 2} : Disconnect(c)

SpecPlay == InitPlay /\ [][NextPlay]_vars

(***************************************************************************)
(* Boards: checkWinner on its own, called once on each of the 3^9 boards   *)
(* of 9 cells over null, X and O; the server's stores stay empty.          *)
(***************************************************************************)
Markers == {Null, "X", "O"}

InitBoards ==
    /\ sockets = {}
    /\ nextConn = 1
    /\ games = EmptyMap
    /\ players = EmptyMap
    /\ heap = <<>>
    /\ mmQueue = <<>>
    /\ rooms = {}
    /\ nextGameId = 1
    /\ out = <<>>
    /\ accepted = {}
    /\ lastMover = EmptyMap
    /\ ended = {}
    /\ probe \in [Cells -> Markers]
    /\ verdict = <<>>

CheckWinner ==
    /\ verdict = <<>>
    /\ verdict' = <<checkWinner(probe)>>
    /\ UNCHANGED <<sockets, nextConn, games, players, heap, mmQueue, rooms, nextGameId,
                   out, accepted, lastMover, ended, probe>>

NextBoards == CheckWinner

SpecBoards == InitBoards /\ [][NextBoards]_vars

(***************************************************************************)
(* Vocabulary of the properties.                                           *)
(***************************************************************************)
\* the 8 lines of the 3x3 board, by geometry
Lines ==
    {{3 * r, 3 * r + 1, 3 * r + 2} : r \in 0..2}
        \cup {{k, k + 3, k + 6} : k \in 0..2}
        \cup {{0, 4, 8}, {2, 4, 6}}

Marks(board, m) == Cardinality({i \in Cells : board[i] = m})
Full(board) == \A i \in Cells : board[i] # Null
HasLine(board) == \E l \in Lines : \E m \in {"X", "O"} : \A i \in l : board[i] = m

PlayerId(g, k) == heap[games[g].players[k]].id
PlayerIds(g) == {PlayerId(g, 1), PlayerId(g, 2)}
InQueue(c) == \E i \in 1..Len(mmQueue) : mmQueue[i] = c
ActiveGamesOf(c) == {g \in DOMAIN games : games[g].status # "finished" /\ c \in PlayerIds(g)}

\* the games a step keeps, and among them those whose board the step wrote
Kept == DOMAIN games \cap DOMAIN games'
Moved == {g \in Kept : games'[g].board # games[g].board}

(***************************************************************************)
(* C1.  A makeMove event that names no existing session, or a session that *)
(* is not playing, or comes from a sender that is not currentTurn, or      *)
(* carries a position outside 0..8 or the position of an occupied cell, is *)
(* rejected: no session (board, status, currentTurn, winner) and no Player *)
(* changes, and the handler emits exactly one message, an error to the     *)
(* sender alone.                                                           *)
(***************************************************************************)
RejectCase(c, gameId, position) ==
    \/ gameId \notin DOMAIN games
    \/ games[gameId].status # "playing"
    \/ games[gameId].currentTurn # c
    \/ position < 0
    \/ position > 8
    \/ games[gameId].board[position] # Null

C1_RejectedMove ==
    \A c \in sockets, gameId \in GameIds, position \in Positions :
        RejectCase(c, gameId, position) =>
            LET r == makeMove(Store, c, gameId, position)
            IN  /\ r.games = games
                /\ r.heap = heap
                /\ Len(r.out) = 1
                /\ r.out[1].type = "error"
                /\ r.out[1].to = {c}

\* a move on a board that already holds a marker was answered "Invalid move" to the
\* player whose turn it is, and to nobody else
C1_Witness ==
    \E g \in DOMAIN games :
        /\ games[g].status = "playing"
        /\ Marks(games[g].board, Null) < BoardSize
        /\ games[g].currentTurn \in sockets
        /\ out = <<Emission("error", {games[g].currentTurn}, "Invalid move", 0, NoSnap)>>

(***************************************************************************)
(* C2.  Turn order: the accepted moves of a session alternate between its  *)
(* two players, the first-paired player (players[0]) moving first, and     *)
(* after every accepted move the board holds as many X as O, or one more.  *)
(***************************************************************************)
C2_TurnOrder ==
    [][\A g \in Moved :
          /\ lastMover'[g] # lastMover[g]
          /\ lastMover[g] = NoConn => lastMover'[g] = PlayerId(g, 1)
          /\ Marks(games'[g].board, "X") - Marks(games'[g].board, "O") \in {0, 1}]_vars

(***************************************************************************)
(* C3.  The status of a session only moves forward,                        *)
(* waiting -> playing -> finished: no step takes a session back.           *)
(***************************************************************************)
Rank(status) == CASE status = "waiting" -> 0 [] status = "playing" -> 1 [] status = "finished" -> 2

C3_StatusForward ==
    [][\A g \in Kept : Rank(games'[g].status) >= Rank(games[g].status)]_vars

(***************************************************************************)
(* C4.  Each connection id is in the matchmaking queue at most once and is *)
(* a player of at most one session that is not finished.                   *)
(***************************************************************************)
C4_OnePlace ==
    \A c \in Conns :
        /\ Cardinality({i \in 1..Len(mmQueue) : mmQueue[i] = c}) <= 1
        /\ Cardinality(ActiveGamesOf(c)) <= 1

(***************************************************************************)
(* C5.  joinQueue from a connection that is already queued adds no queue   *)
(* entry and creates no session, and joinQueue from a connection that is a *)
(* player of a session that is not finished does not enqueue it.  A        *)
(* joinQueue step is the step that allocates a Player object; the sender   *)
(* is the id of that object.                                               *)
(***************************************************************************)
C5_JoinQueueIdempotent ==
    [][Len(heap') > Len(heap) =>
          LET c == heap'[Len(heap')].id
          IN  /\ InQueue(c) => mmQueue' = mmQueue /\ DOMAIN games' = DOMAIN games
              /\ ActiveGamesOf(c) # {} => mmQueue' = mmQueue]_vars

(***************************************************************************)
(* C6.  A session that is playing, or finished (a session finishes only    *)
(* from playing), has had an accepted joinGame naming it from each of its  *)
(* two players.                                                            *)
(***************************************************************************)
C6_BothJoined ==
    \A g \in DOMAIN games :
        games[g].status # "waiting" =>
            \A k \in 1..2 : <<PlayerId(g, k), g>> \in accepted

(***************************************************************************)
(* C7.  While a session is playing, each of its players that is still      *)
(* connected is a member of the session's room, so that every gameUpdate   *)
(* of the session reaches it.                                              *)
(***************************************************************************)
C7_PlayersInRoom ==
    \A g \in DOMAIN games :
        games[g].status = "playing" =>
            \A k \in 1..2 :
                PlayerId(g, k) \in sockets => <<PlayerId(g, k), g>> \in rooms

(***************************************************************************)
(* C8.  No makeMove event is dropped: the handler either broadcasts a      *)
(* gameUpdate or sends an error to the sender and changes nothing; it      *)
(* never ends with neither.                                                *)
(***************************************************************************)
C8_NoSilentDrop ==
    \A c \in sockets, gameId \in DOMAIN games, position \in Positions :
        LET r == makeMove(Store, c, gameId, position)
        IN  /\ Len(r.out) = 1
            /\ \/ r.out[1].type = "gameUpdate"
               \/ /\ r.out[1].type = "error"
                  /\ r.out[1].to = {c}
                  /\ r.games = games
                  /\ r.heap = heap

(***************************************************************************)
(* C9.  An accepted move that completes one of the 8 lines with the        *)
(* mover's marker leaves the session finished with the mover as winner and *)
(* both of the session's Player records with no symbol and inGame false,   *)
(* also when the move fills the last empty cell.                           *)
(***************************************************************************)
Written(g) == CHOOSE i \in Cells : games'[g].board[i] # games[g].board[i]

Cleared(g) ==
    \A k \in 1..2 :
        /\ heap[games[g].players[k]].symbol = Undefined
        /\ heap[games[g].players[k]].inGame = FALSE

CompletesLine(g) ==
    LET mark == heap[FindSelf(Store, games[g], lastMover'[g])].symbol
    IN  \E l \in Lines : Written(g) \in l /\ \A i \in l : games'[g].board[i] = mark

C9_WinningMove ==
    [][\A g \in Moved :
          CompletesLine(g) =>
              /\ games'[g].status = "finished"
              /\ games'[g].winner = lastMover'[g]
              /\ Cleared(g)']_vars

\* the move that filled the last cell completed a line of X: the session is finished,
\* the first-paired player has won, and the update went to both players
C9_Witness ==
    \E g \in DOMAIN games :
        /\ Full(games[g].board)
        /\ \E l \in Lines : \A i \in l : games[g].board[i] = "X"
        /\ games[g].status = "finished"
        /\ games[g].winner = PlayerId(g, 1)
        /\ lastMover[g] = PlayerId(g, 1)
        /\ Cleared(g)
        /\ Len(out) = 1 /\ out[1].type = "gameUpdate" /\ out[1].to = PlayerIds(g)

(***************************************************************************)
(* C10.  An accepted move that fills the last empty cell and leaves no     *)
(* line on the board leaves the session finished with no winner and both   *)
(* of the session's Player records with no symbol and inGame false.        *)
(***************************************************************************)
C10_DrawMove ==
    [][\A g \in Moved :
          Full(games'[g].board) /\ ~HasLine(games'[g].board) =>
              /\ games'[g].status = "finished"
              /\ games'[g].winner = NoConn
              /\ Cleared(g)']_vars

C10_Witness ==
    \E g \in DOMAIN games :
        /\ Full(games[g].board)
        /\ ~HasLine(games[g].board)
        /\ games[g].status = "finished"
        /\ games[g].winner = NoConn
        /\ Cleared(g)
        /\ Len(out) = 1 /\ out[1].type = "gameUpdate" /\ out[1].to = PlayerIds(g)

(***************************************************************************)
(* Steps, as the stores show them.  A disconnect step closes a socket; the *)
(* socket it closes is the Leaver.  A joinQueue step allocates a Player    *)
(* object; the id of that object is the Joiner.                            *)
(***************************************************************************)
DisconnectStep == sockets' \subseteq sockets /\ sockets' # sockets
Leaver == CHOOSE c \in sockets : c \notin sockets'
JoinQueueStep == Len(heap') > Len(heap)
Joiner == heap'[Len(heap')].id

\* positions in an emission sequence of the gameUpdate messages of session g
GameUpdates(o, g) == {i \in 1..Len(o) : o[i].type = "gameUpdate" /\ o[i].game.id = g}
\* the queueSize values of an emission sequence, in order
QueueSizes(o) == SelectSeq(o, LAMBDA e : e.type = "queueSize")

(***************************************************************************)
(* C11.  When a player of a playing session disconnects, the session       *)
(* becomes finished with the other player as winner, and exactly one       *)
(* gameUpdate of that session is emitted, which the other player receives. *)
(***************************************************************************)
C11_DisconnectWhilePlaying ==
    [][DisconnectStep =>
          \A g \in DOMAIN games :
              games[g].status = "playing" /\ Leaver \in PlayerIds(g) =>
                  /\ g \in DOMAIN games'
                  /\ games'[g].status = "finished"
                  /\ games'[g].winner \in PlayerIds(g) \ {Leaver}
                  /\ Cardinality(GameUpdates(out', g)) = 1
                  /\ \A i \in GameUpdates(out', g) :
                         PlayerIds(g) \ {Leaver} \subseteq out'[i].to]_vars

(***************************************************************************)
(* C12.  Every queueSize broadcast carries the number of connections in    *)
(* the queue at the moment it is emitted, and a step that changes the      *)
(* length of the queue ends with a broadcast of the number of connections  *)
(* now queued.  joinQueue broadcasts right after its push, and again after *)
(* a pairing; leaveQueue and disconnect broadcast after their removal.     *)
(***************************************************************************)
Queued(q) == Cardinality({q[i] : i \in 1..Len(q)})

C12_QueueSize ==
    [][LET sizes == QueueSizes(out')
       IN  /\ Len(mmQueue') # Len(mmQueue) => Len(sizes) >= 1
           /\ Len(sizes) >= 1 => sizes[Len(sizes)].num = Queued(mmQueue')
           /\ \A i \in 1..(Len(sizes) - 1) :
                  /\ JoinQueueStep
                  /\ sizes[i].num = Queued(Append(mmQueue, Joiner))]_vars

(***************************************************************************)
(* C13.  Pairing is FIFO.  A joinQueue that brings the queue to length 2   *)
(* or more removes the two oldest entries within the same step and puts    *)
(* them into exactly one new session, which is waiting, has the earlier    *)
(* joiner as players[0] with X and the later joiner as players[1] with O;  *)
(* each of the two is sent gameFound carrying the id of that session.      *)
(***************************************************************************)
FoundSent(o, c, g) ==
    \E i \in 1..Len(o) : o[i].type = "gameFound" /\ o[i].to = {c} /\ o[i].num = g

C13_FifoPairing ==
    [][JoinQueueStep /\ Len(mmQueue) + 1 >= 2 =>
          LET q == Append(mmQueue, Joiner)
              created == DOMAIN games' \ DOMAIN games
          IN  /\ mmQueue' = SubSeq(q, 3, Len(q))
              /\ Cardinality(created) = 1
              /\ \A g \in created :
                     /\ games'[g].status = "waiting"
                     /\ heap'[games'[g].players[1]].id = q[1]
                     /\ heap'[games'[g].players[1]].symbol = "X"
                     /\ heap'[games'[g].players[2]].id = q[2]
                     /\ heap'[games'[g].players[2]].symbol = "O"
                     /\ FoundSent(out', q[1], g)
                     /\ FoundSent(out', q[2], g)]_vars

(***************************************************************************)
(* C14.  Whenever a session's status becomes playing, its currentTurn is   *)
(* the connection id of players[0], the player dequeued first; as long as  *)
(* a session is waiting its currentTurn is unset (null).                   *)
(***************************************************************************)
Started == {g \in DOMAIN games' :
               /\ games'[g].status = "playing"
               /\ g \in DOMAIN games => games[g].status # "playing"}

C14_FirstPairedStarts ==
    [][/\ \A g \in Started : games'[g].currentTurn = heap'[games'[g].players[1]].id
       /\ \A g \in DOMAIN games' :
              games'[g].status = "waiting" => games'[g].currentTurn = NoConn]_vars

\* a session has just been started by the second joinGame: the update sent to its
\* room shows it playing, on the turn of players[0], with no move made yet
C14_Witness ==
    \E g \in DOMAIN games :
        /\ games[g].status = "playing"
        /\ games[g].board = EmptyBoard
        /\ PlayerId(g, 1) # PlayerId(g, 2)
        /\ games[g].currentTurn = PlayerId(g, 1)
        /\ Len(out) = 1
        /\ out[1].type = "gameUpdate"
        /\ out[1].game.id = g
        /\ out[1].game.status = "playing"
        /\ out[1].game.currentTurn = PlayerId(g, 1)

(***************************************************************************)
(* C15.  Every session's board has exactly 9 cells, and a cell that holds  *)
(* a marker keeps that marker in every later state of the session: no      *)
(* event overwrites or clears a non-empty cell.                            *)
(***************************************************************************)
C15_CellsNeverOverwritten ==
    [][/\ \A g \in DOMAIN games' :
              /\ DOMAIN games'[g].board = Cells
              /\ Cardinality(DOMAIN games'[g].board) = BoardSize
       /\ \A g \in Kept : \A i \in Cells :
              games[g].board[i] # Null => games'[g].board[i] = games[g].board[i]]_vars

\* a move onto a cell that already holds a marker has just been refused
C15_Witness ==
    \E g \in DOMAIN games :
        /\ games[g].status = "playing"
        /\ \E i \in Cells : games[g].board[i] # Null
        /\ out = <<Emission("error", {games[g].currentTurn}, "Invalid move", 0, NoSnap)>>

(***************************************************************************)
(* C16.  When a player of a waiting session disconnects, the session is    *)
(* removed from the store and no gameUpdate is emitted for it; when a      *)
(* player of a finished session disconnects, the session is left unchanged *)
(* and no gameUpdate is emitted for it.                                    *)
(***************************************************************************)
C16_DisconnectIdleSession ==
    [][DisconnectStep =>
          \A g \in DOMAIN games :
              Leaver \in PlayerIds(g) =>
                  /\ games[g].status = "waiting" =>
                         g \notin DOMAIN games' /\ GameUpdates(out', g) = {}
                  /\ games[g].status = "finished" =>
                         /\ g \in DOMAIN games'
                         /\ games'[g] = games[g]
                         /\ GameUpdates(out', g) = {}]_vars

\* the last open connection has just disconnected: a waiting session is gone from
\* the store, a session finished earlier is still stored, and nothing was sent for it
C16_Witness ==
    /\ sockets = {}
    /\ nextConn > 1
    /\ \E g \in 1..(nextGameId - 1) : g \notin DOMAIN games
    /\ \E g \in DOMAIN games : games[g].status = "finished"
    /\ \A i \in 1..Len(out) : out[i].type # "gameUpdate"

(***************************************************************************)
(* C17.  checkWinner(board) returns true exactly when at least one of the  *)
(* 8 lines (3 rows, 3 columns, 2 diagonals) holds three identical          *)
(* non-empty markers, for every board of 9 cells over null, X and O; it    *)
(* returns false for the empty board and for a full board with no line.    *)
(***************************************************************************)
C17_CheckWinner ==
    /\ Cardinality(Lines) = 8
    /\ Len(verdict) = 1 =>
           /\ verdict[1] <=> HasLine(probe)
           /\ probe = EmptyBoard => verdict[1] = FALSE
           /\ Full(probe) /\ ~HasLine(probe) => verdict[1] = FALSE

\* checkWinner has answered false for a full board with no line
C17_Witness ==
    /\ verdict = <<FALSE>>
    /\ Full(probe)
    /\ ~HasLine(probe)

(***************************************************************************)
(* C18.  After every event handler completes the matchmaking queue holds   *)
(* fewer than 2 connections, so the single pairing attempt of a joinQueue  *)
(* is enough; and that attempt never takes the branch that gives up        *)
(* because a dequeued id has no player record: a joinQueue onto a          *)
(* non-empty queue always creates a session.                               *)
(***************************************************************************)
C18_QueueBelowTwo ==
    [][/\ Len(mmQueue) < 2
       /\ Len(mmQueue') < 2
       /\ \A i \in 1..Len(mmQueue') : mmQueue'[i] \in DOMAIN players'
       /\ JoinQueueStep /\ Len(mmQueue) >= 1 =>
              DOMAIN games' \ DOMAIN games # {}]_vars

\* a joinQueue has just paired the connection that was waiting with the joiner
C18_Witness ==
    /\ Len(mmQueue) = 0
    /\ Len(out) = 4
    /\ out[1].type = "queueSize" /\ out[1].num = 2
    /\ out[4].type = "queueSize" /\ out[4].num = 0
    /\ \E g \in DOMAIN games :
           /\ PlayerId(g, 1) # PlayerId(g, 2)
           /\ FoundSent(out, PlayerId(g, 1), g)
           /\ FoundSent(out, PlayerId(g, 2), g)

(***************************************************************************)
(* C19.  Once a session has reached status finished (by a win, a draw or   *)
(* the opponent's disconnect) its board and its winner never change again, *)
(* whatever joinGame, makeMove, joinQueue or disconnect events follow.     *)
(***************************************************************************)
C19_FinishedIsFinal ==
    [][\A g \in ended \cap Kept :
           /\ games'[g].board = games[g].board
           /\ games'[g].winner = games[g].winner]_vars

(***************************************************************************)
(* C20.  In every reachable state the two players of every session are    *)
(* two different connections: players[0].id differs from players[1].id.    *)
(***************************************************************************)
C20_DistinctPlayers ==
    \A g \in DOMAIN games : PlayerId(g, 1) # PlayerId(g, 2)

=============================================================================
